---- MODULE Spec2Model ----
(***************************************************************************)
(* Model of ot-decay (src/src/lib.rs): the decay marker `Decay`, its       *)
(* `DecayDuration` range, the private `DecayTimer`, the two observers      *)
(* `handle_decay_start` / `handle_decay_pause` and the `decaying` system.  *)
(*                                                                         *)
(* Durations are whole nanoseconds, as in std::time::Duration.  A command  *)
(* is applied to the world together with the observers it triggers and the *)
(* commands those observers queue (the world is flushed after every        *)
(* command), so every action below is one applied command or one run of    *)
(* the `decaying` system followed by the application of its commands.      *)
(***************************************************************************)
EXTENDS Integers, Sequences, FiniteSets, TLC

\* ------------------------------------------------------------------ bounds
MaxMillis == 1          \* ranges given to entities: bounds of 0 .. MaxMillis whole milliseconds
MaxDeltaHalfMillis == 2 \* frame deltas: 0 .. MaxDeltaHalfMillis half-milliseconds
MaxHalfMillis == 5      \* arguments of the DecayDuration calls: 0 .. MaxHalfMillis half-milliseconds
MaxCompletedSeen == 2   \* a subscriber stops counting the DecayCompleted of an entity here

\* --------------------------------------------------------------- constants
NanosPerMilli == 1000000   \* Duration::as_millis / Duration::from_millis
HalfMilli == NanosPerMilli \div 2   \* durations finer than a millisecond

\* The entities of the world.  The observers act on the one entity of their
\* trigger; only the batch of `decaying` relates entities, and two entities
\* make a batch of more than one.
Entities == {1, 2}
Durations == {k * NanosPerMilli : k \in 0..MaxMillis}
Deltas == {k * HalfMilli : k \in 0..MaxDeltaHalfMillis}
FineDurations == {k * HalfMilli : k \in 0..MaxHalfMillis}

\* Option<T>: None is the empty sequence, Some(x) the one-element sequence.
None == <<>>
Some(x) == <<x>>
IsSome(o) == Len(o) = 1
Unwrap(o) == o[1]

VARIABLES
    decay,          \* decay[e]: entity e carries the `Decay` marker
    decayDuration,  \* decayDuration[e]: Option<DecayDuration> of e
    decayTimer,     \* decayTimer[e]: Option<DecayTimer> of e
    events,         \* the events triggered while the last command / system ran, in order
    seen,           \* seen[i]: what the observers of events[i] found on the entities it names
    op,             \* the last command / system that ran, with its inputs
    lastPaused,     \* lastPaused[e]: remaining_duration of the DecayPaused that paused the timer e carries
    run,            \* run[e]: what a subscriber has seen of e since its marker was added with a fixed range
    held,           \* held[e]: the duration e was started with, and the frame time that passed while it carried the marker
    life,           \* life[e]: <<a DecayStarted named e and no DecayCompleted since,
                    \*            no DecayStarted named e since the last DecayPaused or DecayCompleted,
                    \*            "completed" when the last event naming e is a DecayCompleted and
                    \*            "restarted" when it is a DecayStarted of the last step that followed
                    \*            a DecayCompleted>>
    call            \* the last call of a DecayDuration function: its arguments and its result

vars == <<decay, decayDuration, decayTimer, events, seen, op, lastPaused, run, held, life, call>>

\* ------------------------------------------------------------ DecayDuration
Duration_ZERO == 0

\* Faulty variant of randomized: the arguments are stored as given
RandomizedSwapless(a, b) == [min |-> a, max |-> b]

\* DecayDuration::randomized: swap when min > max
Randomized(a, b) ==
    IF a > b THEN [min |-> b, max |-> a] ELSE [min |-> a, max |-> b]

\* DecayDuration::new
New(duration) == Randomized(duration, duration)

\* #[derive(Default)] on DecayDuration
DefaultDecayDuration == [min |-> Duration_ZERO, max |-> Duration_ZERO]

\* DecayDuration::is_zero
IsZero(d) == d.min = Duration_ZERO /\ d.max = Duration_ZERO

\* Duration::as_millis: whole milliseconds, the sub-millisecond part is dropped
AsMillis(d) == d \div NanosPerMilli

\* Duration::from_millis
FromMillis(ms) == ms * NanosPerMilli

\* impl From<&DecayDuration> for Duration: the set of values the conversion
\* can return (gen_range draws any value of the inclusive range)
Resolve(d) ==
    IF d.min = d.max
    THEN {d.min}
    ELSE {FromMillis(ms) : ms \in AsMillis(d.min)..AsMillis(d.max)}

\* ---------------------------------------------------------------- DecayTimer
\* DecayTimer::new: Timer::new(duration, TimerMode::Once)
TimerNew(d) ==
    [duration |-> d, elapsed |-> 0, paused |-> FALSE, finished |-> FALSE]

TimerPause(t) == [t EXCEPT !.paused = TRUE]

TimerUnpause(t) == [t EXCEPT !.paused = FALSE]

TimerRemaining(t) == t.duration - t.elapsed

TimerFinished(t) == t.finished

\* Faulty variant of tick: the frame delta is counted twice
TimerTickTwice(t, delta) ==
    IF t.paused \/ t.finished
    THEN t
    ELSE IF t.elapsed + 2 * delta >= t.duration
         THEN [t EXCEPT !.elapsed = t.duration, !.finished = TRUE]
         ELSE [t EXCEPT !.elapsed = t.elapsed + 2 * delta]

\* Faulty variant of tick: the first tick finishes the timer
TimerTickEager(t, delta) ==
    IF t.paused \/ t.finished
    THEN t
    ELSE [t EXCEPT !.elapsed = t.duration, !.finished = TRUE]

\* Timer::tick in TimerMode::Once: nothing when paused or already finished,
\* otherwise the elapsed time advances and saturates at the duration
TimerTick(t, delta) ==
    IF t.paused \/ t.finished
    THEN t
    ELSE IF t.elapsed + delta >= t.duration
         THEN [t EXCEPT !.elapsed = t.duration, !.finished = TRUE]
         ELSE [t EXCEPT !.elapsed = t.elapsed + delta]

\* -------------------------------------------------------------------- events
DecayStarted(e, d) ==
    [duration |-> d, type |-> "DecayStarted", entity |-> e, entities |-> <<>>]

\* the field `duration` of a DecayPaused is its remaining_duration
DecayPaused(e, remaining_duration) ==
    [duration |-> remaining_duration, type |-> "DecayPaused", entity |-> e, entities |-> <<>>]

DecayCompleted(decayed_entities) ==
    [duration |-> 0, type |-> "DecayCompleted", entity |-> 0, entities |-> decayed_entities]

\* ------------------------------------------------------------------ commands
\* The world a command is applied to: the three component columns, the
\* events triggered so far and what their observers found.
World(d, dd, dt, ev) ==
    [decay |-> d, decayDuration |-> dd, decayTimer |-> dt, events |-> ev, seen |-> <<>>]

\* commands.entity(e).remove::<Decay>()
RemoveDecayCmd(e) == [entity |-> e, cmd |-> "remove::<Decay>", arg |-> <<>>]
\* Faulty variant of the timer's removal: remove::<Decay>() is written twice
RemoveTimerCmdRepeatsDecay(e) == [entity |-> e, cmd |-> "remove::<Decay>", arg |-> <<>>]

\* commands.entity(e).remove::<DecayTimer>()
RemoveTimerCmd(e) == [entity |-> e, cmd |-> "remove::<DecayTimer>", arg |-> <<>>]
\* commands.entity(e).insert(DecayTimer::new(duration))
InsertTimerCmd(e, duration) == [entity |-> e, cmd |-> "insert(DecayTimer)", arg |-> <<duration>>]
\* commands.trigger(event)
TriggerCmd(event) == [entity |-> 0, cmd |-> "trigger", arg |-> <<event>>]
\* commands.entity(e).insert(Decay): `resolved` is the value the conversion
\* of the range returns if handle_decay_start asks for it
InsertDecayCmd(e, resolved) == [entity |-> e, cmd |-> "insert(Decay)", arg |-> <<resolved>>]

\* handle_decay_start, observer of OnAdd<Decay>: the world after the
\* observer's direct writes, and the commands it queued.  Its three branches
\* are StartZero, StartResume and StartFirst; the other Start* operators are
\* faulty variants of them (the timer is left in place; the event carries
\* the timer's total; the marker is removed on resume; the event carries the
\* range's max instead of the resolved duration).
StartZeroKeepsTimer(w, e, resolved) ==
    [world |-> w, commands |-> <<RemoveDecayCmd(e)>>]

StartZero(w, e, resolved) ==
    [world |-> w, commands |-> <<RemoveDecayCmd(e), RemoveTimerCmd(e)>>]

StartResumeFullDuration(w, e, resolved) ==
    LET timer == TimerUnpause(Unwrap(w.decayTimer[e]))
    IN  [world |-> [w EXCEPT !.decayTimer[e] = Some(timer)],
         commands |-> <<TriggerCmd(DecayStarted(e, timer.duration))>>]

StartResumeStripsMarker(w, e, resolved) ==
    LET timer == TimerUnpause(Unwrap(w.decayTimer[e]))
    IN  [world |-> [w EXCEPT !.decayTimer[e] = Some(timer)],
         commands |-> <<RemoveDecayCmd(e), TriggerCmd(DecayStarted(e, TimerRemaining(timer)))>>]

\* Faulty variant of StartResume: the timer is not unpaused
StartResumeStaysPaused(w, e, resolved) ==
    LET timer == Unwrap(w.decayTimer[e])
    IN  [world |-> w,
         commands |-> <<TriggerCmd(DecayStarted(e, TimerRemaining(timer)))>>]

StartResume(w, e, resolved) ==
    LET timer == TimerUnpause(Unwrap(w.decayTimer[e]))
    IN  [world |-> [w EXCEPT !.decayTimer[e] = Some(timer)],
         commands |-> <<TriggerCmd(DecayStarted(e, TimerRemaining(timer)))>>]

StartFirstMaxInEvent(w, e, resolved) ==
    [world |-> w,
     commands |-> <<InsertTimerCmd(e, resolved),
                    TriggerCmd(DecayStarted(e, Unwrap(w.decayDuration[e]).max))>>]

StartFirst(w, e, resolved) ==
    [world |-> w,
     commands |-> <<InsertTimerCmd(e, resolved), TriggerCmd(DecayStarted(e, resolved))>>]

handle_decay_start(w, e, resolved) ==
    IF ~IsSome(w.decayDuration[e])
    THEN [world |-> w, commands |-> <<>>]
    ELSE IF IsZero(Unwrap(w.decayDuration[e]))
    THEN StartZero(w, e, resolved)
    ELSE IF IsSome(w.decayTimer[e])
    THEN StartResume(w, e, resolved)
    ELSE StartFirst(w, e, resolved)

\* Faulty variant of handle_decay_pause: a missing timer is taken to be the
\* default timer (DecayTimer derives Default) and is announced as paused
HandlePauseDefaultTimer(w, e) ==
    IF IsSome(w.decayTimer[e])
    THEN LET timer == TimerPause(Unwrap(w.decayTimer[e]))
         IN  [world |-> [w EXCEPT !.decayTimer[e] = Some(timer)],
              commands |-> <<TriggerCmd(DecayPaused(e, TimerRemaining(timer)))>>]
    ELSE [world |-> w,
          commands |-> <<TriggerCmd(DecayPaused(e, TimerRemaining(TimerPause(TimerNew(Duration_ZERO)))))>>]

\* Faulty variant of handle_decay_pause: the timer is paused and no
\* DecayPaused is triggered
HandlePauseSilent(w, e) ==
    IF IsSome(w.decayTimer[e])
    THEN LET timer == TimerPause(Unwrap(w.decayTimer[e]))
         IN  [world |-> [w EXCEPT !.decayTimer[e] = Some(timer)], commands |-> <<>>]
    ELSE [world |-> w, commands |-> <<>>]

\* Faulty variant of handle_decay_pause: the timer is removed with the marker
HandlePauseDropsTimer(w, e) ==
    IF IsSome(w.decayTimer[e])
    THEN LET timer == TimerPause(Unwrap(w.decayTimer[e]))
         IN  [world |-> [w EXCEPT !.decayTimer[e] = Some(timer)],
              commands |-> <<TriggerCmd(DecayPaused(e, TimerRemaining(timer))), RemoveTimerCmd(e)>>]
    ELSE [world |-> w, commands |-> <<>>]

\* handle_decay_pause, observer of OnRemove<Decay>; it runs while the marker
\* and every other component of the entity are still in place
handle_decay_pause(w, e) ==
    IF IsSome(w.decayTimer[e])
    THEN LET timer == TimerPause(Unwrap(w.decayTimer[e]))
         IN  [world |-> [w EXCEPT !.decayTimer[e] = Some(timer)],
              commands |-> <<TriggerCmd(DecayPaused(e, TimerRemaining(timer)))>>]
    ELSE [world |-> w, commands |-> <<>>]

\* What an observer of `event` finds in the world w when the event is
\* delivered: the entities the event names that carry the marker, and those
\* that carry a timer
Observed(w, event) ==
    LET named == IF event.type = "DecayCompleted"
                 THEN {event.entities[i] : i \in 1..Len(event.entities)}
                 ELSE {event.entity}
    IN  <<{e \in named : w.decay[e]}, {e \in named : IsSome(w.decayTimer[e])}>>

\* Application of a command queue: each command is applied, the observers it
\* triggers run, and the commands they queued are applied before the next
\* command of the queue (DecayPlugin::build registers the two observers).
\* An intermediate world is bound as the one element of a set, which
\* evaluates it once.
RECURSIVE Apply(_, _)
ApplyCommand(w, c) ==
    CASE c.cmd = "insert(Decay)" ->
            IF w.decay[c.entity]
            THEN w
            ELSE CHOOSE x \in {Apply(r.world, r.commands) :
                                  r \in {handle_decay_start([w EXCEPT !.decay[c.entity] = TRUE],
                                                            c.entity, c.arg[1])}} : TRUE
      [] c.cmd = "remove::<Decay>" ->
            IF ~w.decay[c.entity]
            THEN w
            ELSE CHOOSE x \in {Apply([r.world EXCEPT !.decay[c.entity] = FALSE], r.commands) :
                                  r \in {handle_decay_pause(w, c.entity)}} : TRUE
      [] c.cmd = "remove::<DecayTimer>" ->
            [w EXCEPT !.decayTimer[c.entity] = None]
      [] c.cmd = "insert(DecayTimer)" ->
            [w EXCEPT !.decayTimer[c.entity] = Some(TimerNew(c.arg[1]))]
      [] c.cmd = "trigger" ->
            [w EXCEPT !.events = Append(@, c.arg[1]), !.seen = Append(@, Observed(w, c.arg[1]))]

Apply(w, commands) ==
    IF commands = <<>>
    THEN w
    ELSE CHOOSE r \in {Apply(w1, Tail(commands)) : w1 \in {ApplyCommand(w, Head(commands))}} : TRUE

\* ---------------------------------------------------------- decaying system
\* The orders in which query.iter_mut() can visit the entities
Orders ==
    {o \in [1..Cardinality(Entities) -> Entities] : \A i, j \in DOMAIN o : o[i] = o[j] => i = j}

\* Faulty variant of the loop body: when a timer finishes, the timer of every
\* entity is removed, not only the timer of the entity the query yielded
DecayingStepStripsAllTimers(acc, e, delta) ==
    LET timer == TimerTick(Unwrap(acc.world.decayTimer[e]), delta)
        w1    == [acc.world EXCEPT !.decayTimer[e] = Some(timer)]
    IN  IF TimerFinished(timer)
        THEN [world    |-> w1,
              commands |-> acc.commands \o <<RemoveDecayCmd(e)>>
                              \o [i \in 1..Cardinality(Entities) |-> RemoveTimerCmd(i)],
              decayed  |-> Append(acc.decayed, e)]
        ELSE [acc EXCEPT !.world = w1]

\* Faulty variant of the loop body: the timer of a finished entity is left
\* on the entity, only the marker is removed
DecayingStepKeepsTimer(acc, e, delta) ==
    LET timer == TimerTick(Unwrap(acc.world.decayTimer[e]), delta)
        w1    == [acc.world EXCEPT !.decayTimer[e] = Some(timer)]
    IN  IF TimerFinished(timer)
        THEN [world    |-> w1,
              commands |-> acc.commands \o <<RemoveDecayCmd(e)>>,
              decayed  |-> Append(acc.decayed, e)]
        ELSE [acc EXCEPT !.world = w1]

\* One iteration of the loop of `decaying` for the entity the query yields:
\* acc is the world (timers are written in place), the queued commands and
\* decayed_entities
DecayingStep(acc, e, delta) ==
    LET timer == TimerTick(Unwrap(acc.world.decayTimer[e]), delta)
        w1    == [acc.world EXCEPT !.decayTimer[e] = Some(timer)]
    IN  IF TimerFinished(timer)
        THEN [world    |-> w1,
              commands |-> acc.commands \o <<RemoveDecayCmd(e), RemoveTimerCmd(e)>>,
              decayed  |-> Append(acc.decayed, e)]
        ELSE [acc EXCEPT !.world = w1]

\* Faulty variant of the query: Without<Decay> in place of With<Decay>
DecayingQueryWithout(w, e) == ~w.decay[e] /\ IsSome(w.decayTimer[e])

\* The query of `decaying`: (Entity, &mut DecayTimer), With<Decay>
DecayingQuery(w, e) == w.decay[e] /\ IsSome(w.decayTimer[e])

RECURSIVE DecayingLoop(_, _, _)
DecayingLoop(acc, order, delta) ==
    IF order = <<>>
    THEN acc
    ELSE CHOOSE r \in {DecayingLoop(a1, Tail(order), delta) :
                          a1 \in {IF DecayingQuery(acc.world, Head(order))
                                  THEN DecayingStep(acc, Head(order), delta)
                                  ELSE acc}} : TRUE

\* Faulty variant of the trigger: one DecayCompleted per entity
DecayingTriggerPerEntity(decayed) ==
    [i \in 1..Len(decayed) |-> TriggerCmd(DecayCompleted(<<decayed[i]>>))]

\* The trigger at the end of `decaying`
DecayingTrigger(decayed) ==
    IF decayed # <<>> THEN <<TriggerCmd(DecayCompleted(decayed))>> ELSE <<>>

\* Faulty variant of `decaying`: the DecayCompleted is delivered before the
\* queued removals are applied
DecayingTriggersFirst(w, order, delta) ==
    CHOOSE r \in {Apply(acc.world, DecayingTrigger(acc.decayed) \o acc.commands) :
                    acc \in {DecayingLoop([world |-> w, commands |-> <<>>, decayed |-> <<>>],
                                          order, delta)}} : TRUE

\* `decaying` followed by the application of the commands it queued
decaying(w, order, delta) ==
    CHOOSE r \in {Apply(acc.world, acc.commands \o DecayingTrigger(acc.decayed)) :
                    acc \in {DecayingLoop([world |-> w, commands |-> <<>>, decayed |-> <<>>],
                                          order, delta)}} : TRUE

\* ------------------------------------------------------------------ observer
\* What a subscriber of the three events keeps.
Mentions(event, e) ==
    IF event.type = "DecayCompleted"
    THEN \E i \in 1..Len(event.entities) : event.entities[i] = e
    ELSE event.entity = e

EventsOf(evs, type, e) == SelectSeq(evs, LAMBDA ev : ev.type = type /\ Mentions(ev, e))

\* lastPaused after the events evs
RECURSIVE PausedAfter(_, _, _)
PausedAfter(lp, evs, e) ==
    IF evs = <<>>
    THEN lp
    ELSE LET ev == Head(evs)
         IN  PausedAfter(IF ev.type = "DecayPaused" /\ ev.entity = e THEN Some(ev.duration)
                         ELSE IF ev.type = "DecayStarted" /\ ev.entity = e THEN None
                         ELSE lp,
                         Tail(evs), e)

Min(a, b) == IF a < b THEN a ELSE b

\* lastPaused[e] after a command or system run that left the world w
LastPausedAfter(lp, w, e) ==
    IF IsSome(w.decayTimer[e]) THEN PausedAfter(lp, w.events, e) ELSE None

\* run[e] after a run of `decaying` with frame delta `delta` that triggered evs
RunAfterTick(r, evs, e, delta) ==
    IF IsSome(r)
    THEN Some([Unwrap(r) EXCEPT
                 !.ticked = Min(@ + delta, Unwrap(r).d),
                 !.completed = Min(@ + Len(EventsOf(evs, "DecayCompleted", e)), MaxCompletedSeen)])
    ELSE r

\* life[e] after the event ev
LifeStep(l, ev, e) ==
    IF ~Mentions(ev, e) THEN l
    ELSE IF ev.type = "DecayStarted"
    THEN <<TRUE, FALSE, IF l[3] = "completed" THEN "restarted" ELSE "none">>
    ELSE IF ev.type = "DecayPaused" THEN <<l[1], TRUE, "none">>
    ELSE <<FALSE, TRUE, "completed">>

RECURSIVE LifeFold(_, _, _)
LifeFold(l, evs, e) ==
    IF evs = <<>>
    THEN l
    ELSE CHOOSE r \in {LifeFold(l1, Tail(evs), e) : l1 \in {LifeStep(l, Head(evs), e)}} : TRUE

\* life[e] after a step that triggered the events evs
LifeAfter(l, evs, e) ==
    LifeFold(<<l[1], l[2], IF l[3] = "restarted" THEN "none" ELSE l[3]>>, evs, e)

\* held[e] after a command that added the marker to e and left the world w:
\* a first activation starts the count with the duration of its
\* DecayStarted, and the count ends when the timer is gone
HeldAfterInsert(h, w, e, first, resolved) ==
    IF w.decayTimer[e] = None THEN None
    ELSE IF first THEN Some([d |-> resolved, ticked |-> 0])
    ELSE h

\* held[e] after a run of `decaying` with frame delta `delta` that left the
\* world w; marked says whether e carried the marker in the run
HeldAfterTick(h, w, e, marked, delta) ==
    IF w.decayTimer[e] = None THEN None
    ELSE IF marked /\ IsSome(h)
    THEN Some([Unwrap(h) EXCEPT !.ticked = Min(@ + delta, Unwrap(h).d)])
    ELSE h

\* ------------------------------------------------------------------- actions
Op(n, e, d) == [delta |-> d, entity |-> e, name |-> n]

NoCall == [min |-> 0, max |-> 0, resolved |-> 0, fn |-> "none", range |-> [min |-> 0, max |-> 0]]

Init ==
    /\ decay = [e \in Entities |-> FALSE]
    /\ decayDuration = [e \in Entities |-> None]
    /\ decayTimer = [e \in Entities |-> None]
    /\ events = <<>>
    /\ seen = <<>>
    /\ op = Op("spawn_empty", 0, 0)
    /\ lastPaused = [e \in Entities |-> None]
    /\ run = [e \in Entities |-> None]
    /\ held = [e \in Entities |-> None]
    /\ life = [e \in Entities |-> <<FALSE, TRUE, "none">>]
    /\ call = NoCall

\* The ranges an external actor gives to an entity
Ranges == {Randomized(a, b) : a, b \in Durations}

\* #[require(DecayDuration)]: the range an entity has once a bundle with the
\* marker and the optional range `given` has been written to it
Required(given, e) ==
    IF IsSome(given) THEN given
    ELSE IF IsSome(decayDuration[e]) THEN decayDuration[e]
    ELSE Some(DefaultDecayDuration)

\* handle_decay_start takes its last branch for e when the marker is added
\* and the entity has the range `range`
FirstTime(e, range) == ~decay[e] /\ ~IsZero(range) /\ ~IsSome(decayTimer[e])

\* An external actor inserts the bundle (Decay, given) on e; `given` is None
\* when only the marker is inserted.  An insertion that finds the marker in
\* place triggers nothing (OnAdd is for a marker that was absent) and writes
\* the range only: it is the step InsertDuration.
InsertBundle(e, given, o) ==
    LET dd    == [decayDuration EXCEPT ![e] = Required(given, e)]
        range == Unwrap(dd[e])
        first == FirstTime(e, range)
    IN  /\ ~decay[e]
        /\ \E resolved \in (IF first THEN Resolve(range) ELSE {0}) :
            \E w \in {Apply(World(decay, dd, decayTimer, <<>>), <<InsertDecayCmd(e, resolved)>>)} :
                /\ decay' = w.decay
                /\ decayDuration' = w.decayDuration
                /\ decayTimer' = w.decayTimer
                /\ events' = w.events
                /\ seen' = w.seen
                /\ op' = o
                /\ lastPaused' = [lastPaused EXCEPT ![e] = LastPausedAfter(@, w, e)]
                /\ run' = [run EXCEPT ![e] =
                             IF decay[e] THEN @
                             ELSE IF first /\ range.min = range.max
                             THEN Some([d |-> range.min, ticked |-> 0, completed |-> 0])
                             ELSE None]
                /\ held' = [held EXCEPT ![e] = HeldAfterInsert(@, w, e, first, resolved)]
                /\ life' = [x \in Entities |-> LifeAfter(life[x], w.events, x)]
                /\ UNCHANGED call

\* commands.entity(e).insert(Decay)
InsertDecay(e) ==
    InsertBundle(e, None, Op("insert(Decay)", e, 0))

\* commands.entity(e).insert((Decay, range)), commands.spawn((Decay, range))
InsertDecayWith(e, range) ==
    InsertBundle(e, Some(range), Op("insert((Decay, DecayDuration))", e, 0))

\* commands.entity(e).insert(range): the range alone is inserted or replaced
InsertDuration(e, range) ==
    /\ decayDuration[e] # Some(range)
    /\ decayDuration' = [decayDuration EXCEPT ![e] = Some(range)]
    /\ events' = <<>>
    /\ seen' = <<>>
    /\ op' = Op("insert(DecayDuration)", e, 0)
    /\ life' = [x \in Entities |-> LifeAfter(life[x], <<>>, x)]
    /\ UNCHANGED <<decay, decayTimer, lastPaused, run, held, call>>

\* commands.entity(e).remove::<Decay>() by an external actor; removing a
\* marker that is absent changes nothing and triggers nothing
RemoveDecay(e) ==
    /\ decay[e]
    /\ \E w \in {Apply(World(decay, decayDuration, decayTimer, <<>>), <<RemoveDecayCmd(e)>>)} :
           /\ decay' = w.decay
           /\ decayDuration' = w.decayDuration
           /\ decayTimer' = w.decayTimer
           /\ events' = w.events
           /\ seen' = w.seen
           /\ op' = Op("remove::<Decay>", e, 0)
           /\ lastPaused' = [lastPaused EXCEPT ![e] = LastPausedAfter(@, w, e)]
           /\ run' = [run EXCEPT ![e] = None]
           /\ life' = [o \in Entities |-> LifeAfter(life[o], w.events, o)]
           /\ UNCHANGED <<held, call>>

\* One PreUpdate run of `decaying` with time.delta() = delta
Tick(delta) ==
    /\ op' = Op("decaying", 0, delta)
    /\ UNCHANGED call
    /\ \E order \in Orders :
        \E w \in {decaying(World(decay, decayDuration, decayTimer, <<>>), order, delta)} :
            /\ decay' = w.decay
            /\ decayDuration' = w.decayDuration
            /\ decayTimer' = w.decayTimer
            /\ events' = w.events
            /\ seen' = w.seen
            /\ lastPaused' = [e \in Entities |-> LastPausedAfter(lastPaused[e], w, e)]
            /\ run' = [e \in Entities |-> RunAfterTick(run[e], w.events, e, delta)]
            /\ held' = [e \in Entities |-> HeldAfterTick(held[e], w, e, decay[e], delta)]
            /\ life' = [e \in Entities |-> LifeAfter(life[e], w.events, e)]

Next ==
    \/ \E e \in Entities : InsertDecay(e)
    \/ \E e \in Entities, range \in Ranges : InsertDecayWith(e, range)
    \/ \E e \in Entities, range \in Ranges : InsertDuration(e, range)
    \/ \E e \in Entities : RemoveDecay(e)
    \/ \E delta \in Deltas : Tick(delta)

Spec == Init /\ [][Next]_vars

\* ------------------------------- frames keep coming, no marker is taken away
\* A PreUpdate run of `decaying` in a frame that took time
TickPositive == \E delta \in Deltas \ {0} : Tick(delta)

\* The external actors insert markers and ranges but remove no marker
NextLive ==
    \/ \E e \in Entities : InsertDecay(e)
    \/ \E e \in Entities, range \in Ranges : InsertDecayWith(e, range)
    \/ \E e \in Entities, range \in Ranges : InsertDuration(e, range)
    \/ \E delta \in Deltas : Tick(delta)

\* `decaying` is in PreUpdate: the schedule runs it in every frame of the app
SpecLive == Init /\ [][NextLive]_vars /\ WF_vars(TickPositive)

\* ------------------------------------------- the DecayDuration functions alone
world == <<decay, decayDuration, decayTimer, events, seen, op, lastPaused, run, held, life>>

\* DecayDuration::randomized(a, b)
CallRandomized(a, b) ==
    /\ call' = [min |-> a, max |-> b, resolved |-> 0, fn |-> "randomized", range |-> Randomized(a, b)]
    /\ UNCHANGED world

\* DecayDuration::new(d)
CallNew(d) ==
    /\ call' = [min |-> d, max |-> d, resolved |-> 0, fn |-> "new", range |-> New(d)]
    /\ UNCHANGED world

\* Duration::from(&range) for the range the last constructor call returned
CallFrom ==
    /\ call.fn \in {"randomized", "new"}
    /\ \E r \in Resolve(call.range) : call' = [call EXCEPT !.fn = "from", !.resolved = r]
    /\ UNCHANGED world

NextRange ==
    \/ \E a, b \in FineDurations : CallRandomized(a, b)
    \/ \E d \in FineDurations : CallNew(d)
    \/ CallFrom

SpecRange == Init /\ [][NextRange]_vars

\* ==================================================================== claims
\* The step just taken added the marker to e (OnAdd<Decay> fired for e)
MarkerAdded(e) ==
    /\ op'.name \in {"insert(Decay)", "insert((Decay, DecayDuration))"}
    /\ op'.entity = e
    /\ ~decay[e]

\* The step just taken is an external actor's removal of the marker of e
MarkerRemoved(e) == op'.name = "remove::<Decay>" /\ op'.entity = e /\ decay[e]

\* The step just taken is a run of `decaying`
Ticked == op'.name = "decaying"

\* The timer of e reaches its total in a run of `decaying` with this delta
FinishesWith(e, delta) ==
    /\ decay[e]
    /\ IsSome(decayTimer[e])
    /\ Unwrap(decayTimer[e]).elapsed + delta >= Unwrap(decayTimer[e]).duration

IsInsert(o) == o.name \in {"insert(Decay)", "insert((Decay, DecayDuration))"}

Stripped(e) == ~decay[e] /\ decayTimer[e] = None

\* ---------------------------------------------------------------------- C1
C1_Started(e) ==
    (/\ MarkerAdded(e)
     /\ decayTimer[e] = None
     /\ Unwrap(decayDuration'[e]).min = Unwrap(decayDuration'[e]).max
     /\ Unwrap(decayDuration'[e]).min > 0)
    => events' = <<DecayStarted(e, Unwrap(decayDuration'[e]).min)>>

C1_Completed(e) ==
    IsSome(run[e]) =>
        IF Unwrap(run[e]).ticked >= Unwrap(run[e]).d
        THEN Unwrap(run[e]).completed = 1 /\ Stripped(e)
        ELSE Unwrap(run[e]).completed = 0

\* C1: an entity that receives the marker with a fixed range min = max = D > 0
\* and has no paused timer gets a DecayStarted with duration D at the
\* insertion; while no external actor removes the marker, no DecayCompleted
\* names it before the frame deltas since the insertion sum up to D, and from
\* then on exactly one DecayCompleted has named it and it carries neither the
\* marker nor the timer.
C1_FixedDurationCompletesOnce ==
    [][\A e \in Entities : C1_Started(e) /\ C1_Completed(e)']_vars

\* C1 witness: an entity completed after several cycles, the last one shorter
\* than its duration
C1_Witness ==
    \E e \in Entities :
        /\ op.name = "decaying"
        /\ IsSome(run[e])
        /\ Unwrap(run[e]).ticked = Unwrap(run[e]).d
        /\ Unwrap(run[e]).completed = 1
        /\ op.delta > 0
        /\ op.delta < Unwrap(run[e]).d
        /\ EventsOf(events, "DecayCompleted", e) # <<>>
        /\ Stripped(e)

\* ---------------------------------------------------------------------- C2
Completions(evs) == SelectSeq(evs, LAMBDA ev : ev.type = "DecayCompleted")

BatchSet(ev) == {ev.entities[i] : i \in 1..Len(ev.entities)}

\* C2: a run of `decaying` triggers at most one DecayCompleted; it triggers
\* one iff the timer of some entity with marker and timer finished in the run,
\* and the batch holds exactly those entities, each once.
C2_OneBatchPerRun ==
    [][Ticked =>
        LET finished == {e \in Entities : FinishesWith(e, op'.delta)}
            done     == Completions(events')
        IN  /\ Len(done) <= 1
            /\ (Len(done) = 1) <=> (finished # {})
            /\ Len(done) = 1 =>
                  /\ BatchSet(done[1]) = finished
                  /\ Len(done[1].entities) = Cardinality(finished)]_vars

\* C2 witness: two entities finished in the same run and are in one batch
C2_Witness ==
    /\ op.name = "decaying"
    /\ Len(Completions(events)) = 1
    /\ Len(Completions(events)[1].entities) = 2

\* ---------------------------------------------------------------------- C3
C3_Paused(e) ==
    (/\ MarkerRemoved(e)
     /\ IsSome(decayTimer[e])
     /\ Unwrap(decayTimer[e]).elapsed < Unwrap(decayTimer[e]).duration)
    => events' = <<DecayPaused(e, Unwrap(decayTimer[e]).duration - Unwrap(decayTimer[e]).elapsed)>>

C3_Resumed(e) ==
    (/\ MarkerAdded(e)
     /\ IsSome(decayTimer[e])
     /\ Unwrap(decayTimer[e]).elapsed < Unwrap(decayTimer[e]).duration
     /\ ~IsZero(Unwrap(decayDuration'[e])))
    => LET timer == Unwrap(decayTimer[e])
       IN  /\ lastPaused[e] = Some(timer.duration - timer.elapsed)
           /\ events' = <<DecayStarted(e, timer.duration - timer.elapsed)>>
           /\ decayTimer'[e] = Some([duration |-> timer.duration, elapsed |-> timer.elapsed,
                                     paused |-> FALSE, finished |-> FALSE])

\* C3: removing the marker of an entity whose timer has total T and elapsed
\* e < T triggers a DecayPaused with remaining_duration T - e; the next
\* insertion of the marker, with any non-zero range and after any number of
\* runs of `decaying`, keeps the timer (same total, same elapsed, running
\* again) and triggers a DecayStarted with duration T - e, the value the
\* DecayPaused carried.
C3_PauseResumeRoundTrip ==
    [][\A e \in Entities : C3_Paused(e) /\ C3_Resumed(e)]_vars

\* C3 witness: a timer with progress was resumed on an entity whose range is
\* not the fixed range of the timer's total
C3_Witness ==
    \E e \in Entities :
        /\ IsInsert(op) /\ op.entity = e
        /\ IsSome(decayTimer[e])
        /\ Unwrap(decayTimer[e]).elapsed > 0
        /\ events = <<DecayStarted(e, Unwrap(decayTimer[e]).duration - Unwrap(decayTimer[e]).elapsed)>>
        /\ Unwrap(decayDuration[e]).min # Unwrap(decayTimer[e]).duration

\* ---------------------------------------------------------------------- C4
\* C4: when the marker is added to an entity whose range is zero (given,
\* already there, or the default of an entity without a range), the entity
\* carries neither marker nor timer once the commands of handle_decay_start
\* are applied, and no DecayStarted is triggered for it.
C4_ZeroDurationStrips ==
    [][\A e \in Entities :
        (MarkerAdded(e) /\ IsZero(Unwrap(decayDuration'[e])))
        => /\ ~decay'[e]
           /\ decayTimer'[e] = None
           /\ EventsOf(events', "DecayStarted", e) = <<>>]_vars

\* C4 witness: the marker was added with a zero range to an entity that
\* carried a paused timer
C4_Witness ==
    \E e \in Entities :
        /\ IsInsert(op) /\ op.entity = e
        /\ IsZero(Unwrap(decayDuration[e]))
        /\ Stripped(e)
        /\ EventsOf(events, "DecayPaused", e) # <<>>

\* ---------------------------------------------------------------------- C5
\* C5: adding the marker to an entity whose range is zero triggers no event
\* at all for it, whatever the entity carried before.
C5_ZeroDurationSilent ==
    [][\A e \in Entities :
        (MarkerAdded(e) /\ IsZero(Unwrap(decayDuration'[e])))
        => \A i \in 1..Len(events') : ~Mentions(events'[i], e)]_vars

\* ---------------------------------------------------------------------- C6
\* C6: a run of `decaying` triggers no DecayPaused, and every DecayPaused is
\* for an entity whose marker an external actor has just removed.
C6_PausedOnlyOnExternalRemoval ==
    [][\A i \in 1..Len(events') :
        events'[i].type = "DecayPaused" => (~Ticked /\ MarkerRemoved(events'[i].entity))]_vars

\* ---------------------------------------------------------------------- C7
\* C7: when the marker is added to an entity with a non-zero range and no
\* timer, the entity gets a running timer with elapsed 0 whose total d is a
\* value the range resolves to, and exactly one DecayStarted is triggered,
\* with that same duration d.
C7_FirstActivation ==
    [][\A e \in Entities :
        (MarkerAdded(e) /\ decayTimer[e] = None /\ ~IsZero(Unwrap(decayDuration'[e])))
        => /\ IsSome(decayTimer'[e])
           /\ Unwrap(decayTimer'[e]).duration \in Resolve(Unwrap(decayDuration'[e]))
           /\ Unwrap(decayTimer'[e]).elapsed = 0
           /\ ~Unwrap(decayTimer'[e]).paused
           /\ ~Unwrap(decayTimer'[e]).finished
           /\ events' = <<DecayStarted(e, Unwrap(decayTimer'[e]).duration)>>
           /\ decay'[e]]_vars

\* C7 witness: a first activation from a range with min < max that resolved
\* to a value below max
C7_Witness ==
    \E e \in Entities :
        /\ IsInsert(op) /\ op.entity = e
        /\ IsSome(decayTimer[e])
        /\ Unwrap(decayTimer[e]).elapsed = 0
        /\ Unwrap(decayDuration[e]).min < Unwrap(decayDuration[e]).max
        /\ Unwrap(decayTimer[e]).duration < Unwrap(decayDuration[e]).max
        /\ events = <<DecayStarted(e, Unwrap(decayTimer[e]).duration)>>
        /\ lastPaused[e] = None

\* ---------------------------------------------------------------------- C8
\* C8: the marker of an entity goes away only when an external actor removes
\* it, when its timer finished in a run of `decaying`, or when it was added
\* with a zero range; it is added only by an external actor; in a first
\* activation and in a resume the marker stays, and no step touches the
\* marker of an entity it is not about.
C8_MarkerRemovedInTwoCases ==
    [][\A e \in Entities :
        /\ (decay[e] /\ ~decay'[e]) =>
              \/ MarkerRemoved(e)
              \/ Ticked /\ FinishesWith(e, op'.delta)
        /\ (Ticked /\ FinishesWith(e, op'.delta)) => ~decay'[e]
        /\ MarkerAdded(e) => (decay'[e] <=> ~IsZero(Unwrap(decayDuration'[e])))
        /\ (~decay[e] /\ decay'[e]) => MarkerAdded(e)]_vars

\* C8 witness: a run of `decaying` stripped the marker of the entity that
\* finished and left the marker of the other one
C8_Witness ==
    \E e, o \in Entities :
        /\ op.name = "decaying"
        /\ EventsOf(events, "DecayCompleted", e) # <<>>
        /\ ~decay[e]
        /\ decay[o]
        /\ IsSome(decayTimer[o])

\* ---------------------------------------------------------------------- C9
\* C9: DecayDuration::randomized(a, b) stores min <= max with {min, max} =
\* {a, b}, and DecayDuration::new(d) stores min = max = d.
C9_RandomizedOrders ==
    /\ call.fn = "randomized" =>
          /\ call.range.min <= call.range.max
          /\ {call.range.min, call.range.max} = {call.min, call.max}
    /\ call.fn = "new" => call.range = [min |-> call.min, max |-> call.min]

\* C9 witness: randomized was called with min > max
C9_Witness == call.fn = "randomized" /\ call.min > call.max /\ call.range.min < call.range.max

\* --------------------------------------------------------------------- C10
\* C10: every value the conversion of a range with min < max returns lies in
\* [min, max].
C10_ResolvedWithinRange ==
    (call.fn = "from" /\ call.range.min < call.range.max)
    => (call.range.min <= call.resolved /\ call.resolved <= call.range.max)

\* --------------------------------------------------------------------- C11
\* C11: when an external actor removes the marker of an entity that carries
\* a timer, the entity still carries the timer afterwards, the timer is
\* paused, and its elapsed and total values are the ones it had.
C11_RemovalKeepsTimer ==
    [][\A e \in Entities :
        (MarkerRemoved(e) /\ IsSome(decayTimer[e]))
        => /\ IsSome(decayTimer'[e])
           /\ Unwrap(decayTimer'[e]).paused
           /\ Unwrap(decayTimer'[e]).elapsed = Unwrap(decayTimer[e]).elapsed
           /\ Unwrap(decayTimer'[e]).duration = Unwrap(decayTimer[e]).duration]_vars

\* C11 witness: the marker was removed from an entity whose timer had made
\* progress, and the paused timer is still there with that progress
C11_Witness ==
    \E e \in Entities :
        /\ op.name = "remove::<Decay>" /\ op.entity = e
        /\ ~decay[e]
        /\ IsSome(decayTimer[e])
        /\ Unwrap(decayTimer[e]).paused
        /\ Unwrap(decayTimer[e]).elapsed > 0
        /\ Unwrap(decayTimer[e]).elapsed < Unwrap(decayTimer[e]).duration
        /\ events = <<DecayPaused(e, Unwrap(decayTimer[e]).duration - Unwrap(decayTimer[e]).elapsed)>>

\* --------------------------------------------------------------------- C12
\* C12: a run of `decaying` leaves every entity that does not carry both the
\* marker and a timer as it was: the timer of an entity without the marker
\* is the same value after the run, an entity without a timer has none after
\* the run, and no entity gains the marker in the run.
C12_TickTouchesOnlyDecaying ==
    [][Ticked =>
        \A e \in Entities :
            /\ ~decay[e] => decayTimer'[e] = decayTimer[e]
            /\ decayTimer[e] = None => decayTimer'[e] = None
            /\ decay'[e] => decay[e]
            /\ ~(decay[e] /\ IsSome(decayTimer[e])) => decay'[e] = decay[e]]_vars

\* C12 witness: a run of `decaying` with a positive delta finished one entity
\* while another entity carried a paused timer with progress, whose
\* remaining time is still the one its DecayPaused announced
C12_Witness ==
    \E e, o \in Entities :
        /\ op.name = "decaying" /\ op.delta > 0
        /\ ~decay[e]
        /\ IsSome(decayTimer[e])
        /\ Unwrap(decayTimer[e]).paused
        /\ Unwrap(decayTimer[e]).elapsed > 0
        /\ lastPaused[e] = Some(Unwrap(decayTimer[e]).duration - Unwrap(decayTimer[e]).elapsed)
        /\ EventsOf(events, "DecayCompleted", o) # <<>>
        /\ Stripped(o)

\* --------------------------------------------------------------------- C13
\* The timer of e is within its total and has not finished
C13_WithinTotal(t) ==
    \A e \in Entities :
        IsSome(t[e]) => (Unwrap(t[e]).elapsed <= Unwrap(t[e]).duration /\ ~Unwrap(t[e]).finished)

\* C13: every timer of a reachable state has elapsed <= total; a run of
\* `decaying` that brings the timer of a marked entity to its total removes
\* the timer and the marker in that same run, and otherwise advances the
\* timer by the frame delta; so no timer that a run finished is there for
\* the next run, and no step changes the elapsed time or the total of a
\* timer whose elapsed time equals its total.
C13_ElapsedWithinTotal ==
    [][/\ C13_WithinTotal(decayTimer)
       /\ C13_WithinTotal(decayTimer')
       /\ \A e \in Entities :
            /\ (Ticked /\ decay[e] /\ IsSome(decayTimer[e])) =>
                  IF Unwrap(decayTimer[e]).elapsed + op'.delta >= Unwrap(decayTimer[e]).duration
                  THEN Stripped(e)'
                  ELSE /\ decay'[e]
                       /\ decayTimer'[e] =
                              Some([Unwrap(decayTimer[e]) EXCEPT !.elapsed = @ + op'.delta])
            /\ (/\ IsSome(decayTimer[e])
                /\ Unwrap(decayTimer[e]).elapsed = Unwrap(decayTimer[e]).duration
                /\ IsSome(decayTimer'[e])) =>
                  /\ Unwrap(decayTimer'[e]).elapsed = Unwrap(decayTimer[e]).elapsed
                  /\ Unwrap(decayTimer'[e]).duration = Unwrap(decayTimer[e]).duration]_vars

\* C13 witness: a run of `decaying` with a positive delta brought the timer
\* of one entity to its total (its remaining time was 0 when the marker went
\* away) and stripped the entity, and advanced the timer of another entity
\* that is still short of its total
C13_Witness ==
    \E e, o \in Entities :
        /\ op.name = "decaying" /\ op.delta > 0
        /\ EventsOf(events, "DecayCompleted", e) # <<>>
        /\ EventsOf(events, "DecayPaused", e) = <<DecayPaused(e, 0)>>
        /\ Stripped(e)
        /\ decay[o]
        /\ IsSome(decayTimer[o])
        /\ Unwrap(decayTimer[o]).elapsed > 0
        /\ Unwrap(decayTimer[o]).elapsed < Unwrap(decayTimer[o]).duration

\* --------------------------------------------------------------------- C14
\* C14: when the marker goes away from an entity that carries no timer (an
\* external actor removes it, or handle_decay_start removes the marker it
\* was just triggered for because the range is zero), handle_decay_pause
\* triggers nothing and changes nothing: no event is triggered in the step,
\* the entity has no timer afterwards, its range is the one the step's
\* command wrote, and no other entity changes.
C14_PauseWithoutTimerIsNoOp ==
    [][\A e \in Entities :
        (/\ decayTimer[e] = None
         /\ \/ MarkerRemoved(e)
            \/ MarkerAdded(e) /\ IsZero(Unwrap(decayDuration'[e])))
        => /\ events' = <<>>
           /\ ~decay'[e]
           /\ decayTimer' = decayTimer
           /\ \A o \in Entities \ {e} :
                 decay'[o] = decay[o] /\ decayDuration'[o] = decayDuration[o]]_vars

\* C14 witness: the marker was added to an entity without a timer whose
\* range is zero, and removed again by handle_decay_start: the removal found
\* no timer, nothing was triggered (with a timer a DecayPaused is triggered)
\* and the entity carries neither marker nor timer
C14_Witness ==
    \E e \in Entities :
        /\ IsInsert(op) /\ op.entity = e
        /\ IsZero(Unwrap(decayDuration[e]))
        /\ events = <<>>
        /\ Stripped(e)

\* --------------------------------------------------------------------- C15
\* C15: when a DecayCompleted is delivered to its observers, no entity of
\* its batch carries the marker and none carries a timer: the removals that
\* the run of `decaying` queued are applied before its trigger.
C15_CompletedAfterRemoval ==
    \A i \in 1..Len(events) :
        events[i].type = "DecayCompleted" => seen[i] = <<{}, {}>>

\* C15 witness: a DecayCompleted with a batch of two entities was delivered
C15_Witness ==
    \E i \in 1..Len(events) :
        /\ events[i].type = "DecayCompleted"
        /\ Len(events[i].entities) = 2
        /\ seen[i] = <<{}, {}>>

\* --------------------------------------------------------------------- C16
\* C16: when frames with a positive delta keep coming and no external actor
\* removes a marker, every entity that carries the marker (it carries it
\* only with a range that was not zero when the marker was added) is
\* eventually named by a DecayCompleted and then carries neither the marker
\* nor a timer.
C16_EventuallyCompleted ==
    \A e \in Entities :
        decay[e] ~> (Stripped(e) /\ EventsOf(events, "DecayCompleted", e) # <<>>)

\* C16 witness: an entity with a range min < max was completed by a run with
\* a positive delta while the other entity still decays
C16_Witness ==
    \E e, o \in Entities :
        /\ op.name = "decaying" /\ op.delta > 0
        /\ EventsOf(events, "DecayCompleted", e) # <<>>
        /\ Stripped(e)
        /\ Unwrap(decayDuration[e]).min < Unwrap(decayDuration[e]).max
        /\ decay[o]

\* --------------------------------------------------------------------- C17
\* C17: once the commands of a step are applied, the timer of an entity is
\* paused iff the entity does not carry the marker.
C17_PausedIffUnmarked ==
    \A e \in Entities :
        IsSome(decayTimer[e]) => (Unwrap(decayTimer[e]).paused <=> ~decay[e])

\* C17 witness: the marker was added again to an entity whose timer had been
\* paused with progress, and the timer runs again, while the other entity
\* carries a paused timer and no marker
C17_Witness ==
    \E e, o \in Entities :
        /\ IsInsert(op) /\ op.entity = e
        /\ decay[e]
        /\ IsSome(decayTimer[e])
        /\ ~Unwrap(decayTimer[e]).paused
        /\ Unwrap(decayTimer[e]).elapsed > 0
        /\ EventsOf(events, "DecayStarted", e) # <<>>
        /\ ~decay[o]
        /\ IsSome(decayTimer[o])
        /\ Unwrap(decayTimer[o]).paused

\* --------------------------------------------------------------------- C18
\* C18: a DecayCompleted names an entity only in a run of `decaying`, and
\* only when the frame deltas of the runs in which the entity carried the
\* marker since its timer was created, this run included, sum up to at least
\* the duration T the timer was created with (the duration of its first
\* DecayStarted).
C18_NoEarlyCompletion ==
    [][\A e \in Entities :
        EventsOf(events', "DecayCompleted", e) # <<>>
        => /\ Ticked
           /\ IsSome(held[e])
           /\ Unwrap(held[e]).ticked + op'.delta >= Unwrap(held[e]).d]_vars

\* C18 witness: an entity whose timer was created with T > 0 carries the
\* marker and is still short of T, and the other entity has just been
\* completed by a run whose delta alone is less than the fixed duration of
\* its range
C18_Witness ==
    \E e, o \in Entities :
        /\ op.name = "decaying" /\ op.delta > 0
        /\ EventsOf(events, "DecayCompleted", o) # <<>>
        /\ Stripped(o)
        /\ Unwrap(decayDuration[o]).min = Unwrap(decayDuration[o]).max
        /\ op.delta < Unwrap(decayDuration[o]).min
        /\ held[o] = None
        /\ decay[e]
        /\ IsSome(held[e])
        /\ Unwrap(held[e]).d > 0
        /\ Unwrap(held[e]).ticked > 0
        /\ Unwrap(held[e]).ticked < Unwrap(held[e]).d

\* --------------------------------------------------------------------- C19
\* The events evs, delivered in this order to a subscriber that has life l
\* for e, keep the order of e's events: a DecayCompleted names e only after
\* a DecayStarted for e with no DecayCompleted in between, and a
\* DecayStarted for e comes first or after a DecayPaused or DecayCompleted
\* for e that followed the previous DecayStarted
RECURSIVE C19_InOrder(_, _, _)
C19_InOrder(l, evs, e) ==
    IF evs = <<>>
    THEN TRUE
    ELSE /\ (Head(evs).type = "DecayCompleted" /\ Mentions(Head(evs), e)) => l[1]
         /\ (Head(evs).type = "DecayStarted" /\ Mentions(Head(evs), e)) => l[2]
         /\ \A l1 \in {LifeStep(l, Head(evs), e)} : C19_InOrder(l1, Tail(evs), e)

\* C19: over a whole run, a DecayCompleted names an entity only if a
\* DecayStarted named it before and no DecayCompleted has named it since,
\* and between two DecayStarted of an entity there is a DecayPaused or a
\* DecayCompleted that names it.
C19_EventOrder ==
    [][\A e \in Entities : C19_InOrder(life[e], events', e)]_vars

\* C19 witness: an entity was started, paused, started again and completed,
\* and the other entity was started and paused
C19_Witness ==
    \E e, o \in Entities :
        /\ op.name = "decaying"
        /\ EventsOf(events, "DecayCompleted", e) # <<>>
        /\ life[e] = <<FALSE, TRUE, "completed">>
        /\ held[e] = None
        /\ run[e] = None
        /\ Unwrap(decayDuration[e]).min = Unwrap(decayDuration[e]).max
        /\ life[o] = <<TRUE, TRUE, "none">>
        /\ ~decay[o]
        /\ IsSome(decayTimer[o])

\* --------------------------------------------------------------------- C20
\* C20: when the marker is added with a non-zero range to an entity whose
\* last event is a DecayCompleted, the entity carries no timer before the
\* step, and after it a running timer with elapsed 0 whose total is a value
\* the entity's range of that moment resolves to; the one event of the step
\* is a DecayStarted with that total, and the count of the time it carried
\* the marker starts at 0.
C20_CompletionResets ==
    [][\A e \in Entities :
        (MarkerAdded(e) /\ life[e][3] = "completed" /\ ~IsZero(Unwrap(decayDuration'[e])))
        => /\ decayTimer[e] = None
           /\ IsSome(decayTimer'[e])
           /\ Unwrap(decayTimer'[e]).duration \in Resolve(Unwrap(decayDuration'[e]))
           /\ decayTimer'[e] = Some(TimerNew(Unwrap(decayTimer'[e]).duration))
           /\ events' = <<DecayStarted(e, Unwrap(decayTimer'[e]).duration)>>
           /\ held'[e] = Some([d |-> Unwrap(decayTimer'[e]).duration, ticked |-> 0])
           /\ decay'[e]]_vars

\* C20 witness: an entity that had completed got the marker again, with a
\* range min < max, and carries a new timer with elapsed 0
C20_Witness ==
    \E e \in Entities :
        /\ IsInsert(op) /\ op.entity = e
        /\ life[e] = <<TRUE, FALSE, "restarted">>
        /\ decay[e]
        /\ IsSome(decayTimer[e])
        /\ Unwrap(decayTimer[e]).elapsed = 0
        /\ Unwrap(decayDuration[e]).min < Unwrap(decayDuration[e]).max
        /\ events = <<DecayStarted(e, Unwrap(decayTimer[e]).duration)>>

====
